---------------------------- MODULE Spec2Model ----------------------------
(***************************************************************************)
(* Collaborative editing core of veritus-legal-intelligence:               *)
(*   backend/app/collab/ot.py      Operation, OperationalTransform,        *)
(*                                 DocumentState                           *)
(*   backend/app/collab/routes.py  the websocket endpoint, its handlers,   *)
(*                                 broadcast_to_document, the REST calls   *)
(*                                                                         *)
(* A text is a sequence of one-character strings.  An Operation is a       *)
(* record of the fields the transform reads or writes (id, type, position, *)
(* content, length, version); user_id, username and timestamp are copied   *)
(* verbatim by every branch of the code and are left out.                  *)
(***************************************************************************)
EXTENDS Integers, Sequences, FiniteSets, TLC

\* ------------------------------------------------------------------ bounds

\* Longest base text of the two-operation scenarios.
MaxDocLen == 3
\* Largest position/length a client puts into an operation of the registry.
MaxPos == 1
\* Operation messages of a run of SpecSubmit, Spec, SpecRoom and SpecLog.
MaxOps == 2
RestOps == 1
RoomOps == 2
LogOps == 3
\* Operation messages of a run of SpecPresence, and the presence messages
\* delivered in it.
PresenceOps == 1
MaxPresence == 2
\* Operation messages of a run of SpecDocs.
DocsOps == 2
\* Operation messages of a run of SpecAdmin.
AdminOps == 1
\* checkpoint-1 transform_operation: the largest position and the largest
\* length (of an inserted text, of a deleted range) of the operations tried
CpMaxPos == 2
CpMaxLen == 2
\* checkpoint-2 WebSocketManager: the number of text_operation messages the
\* clients of a run send
ManagerOps == 3

\* ------------------------------------------------------------- Operation

INSERT == "insert"
DELETE == "delete"
RETAIN == "retain"
REPLACE == "replace"

OperationType == {INSERT, DELETE, RETAIN, REPLACE}

\* Operation(...): the dataclass constructor.
Operation(id, type, position, content, length, version) ==
    [id |-> id, type |-> type, position |-> position, content |-> content,
     length |-> length, version |-> version]

\* Operation(id=op.id, type=op.type, position=p, content=op.content, ...):
\* the copy with a new position that the shifting branches of transform build.
Moved(op, p) ==
    Operation(op.id, op.type, p, op.content, op.length, op.version)

\* Operation(id=op.id, type=op.type, position=op.position, content="",
\* length=n, ...): the merged delete of the overlapping DELETE/DELETE branch.
Merged(op, n) ==
    Operation(op.id, op.type, op.position, << >>, n, op.version)

\* Operation(id=op.id, type=RETAIN, position=0, content="", length=0, ...):
\* the other side of the overlapping DELETE/DELETE branch.
Collapsed(op) ==
    Operation(op.id, RETAIN, 0, << >>, 0, op.version)

Max(a, b) == IF a >= b THEN a ELSE b
Min(a, b) == IF a <= b THEN a ELSE b

\* The pair transform returns.  new1/new2 tell whether the first/second
\* element is a newly constructed Operation (TRUE) or the very object passed
\* in (FALSE): DocumentState.apply_operation later writes into that object.
Pair(o1, n1, o2, n2) == [op1 |-> o1, new1 |-> n1, op2 |-> o2, new2 |-> n2]

\* The DELETE/DELETE branch merging two overlapping deletes into one of the
\* sum of their lengths.
TransformDeleteDeleteSum(op1, op2) ==
    IF op1.position <= op2.position
    THEN IF op1.position + op1.length <= op2.position
         THEN Pair(op1, FALSE, Moved(op2, op2.position - op1.length), TRUE)
         ELSE Pair(Merged(op1, op1.length + op2.length), TRUE,
                   Collapsed(op2), TRUE)
    ELSE IF op2.position + op2.length <= op1.position
         THEN Pair(Moved(op1, op1.position - op2.length), TRUE, op2, FALSE)
         ELSE Pair(Collapsed(op1), TRUE,
                   Merged(op2, op1.length + op2.length), TRUE)

\* OperationalTransform.transform, DELETE/DELETE branch.
TransformDeleteDelete(op1, op2) ==
    IF op1.position <= op2.position
    THEN IF op1.position + op1.length <= op2.position
         THEN Pair(op1, FALSE, Moved(op2, op2.position - op1.length), TRUE)
         ELSE LET new_length == Max(op1.position + op1.length,
                                    op2.position + op2.length) - op1.position
              IN  Pair(Merged(op1, new_length), TRUE, Collapsed(op2), TRUE)
    ELSE IF op2.position + op2.length <= op1.position
         THEN Pair(Moved(op1, op1.position - op2.length), TRUE, op2, FALSE)
         ELSE LET new_length == Max(op1.position + op1.length,
                                    op2.position + op2.length) - op2.position
              IN  Pair(Collapsed(op1), TRUE, Merged(op2, new_length), TRUE)

\* OperationalTransform.transform, INSERT/INSERT branch.
TransformInsertInsert(op1, op2) ==
    IF op1.position <= op2.position
    THEN Pair(op1, FALSE, Moved(op2, op2.position + Len(op1.content)), TRUE)
    ELSE Pair(Moved(op1, op1.position + Len(op2.content)), TRUE, op2, FALSE)

\* OperationalTransform.transform, INSERT/DELETE branch.
TransformInsertDelete(op1, op2) ==
    IF op1.position <= op2.position
    THEN Pair(op1, FALSE, Moved(op2, op2.position + Len(op1.content)), TRUE)
    ELSE IF op1.position >= op2.position + op2.length
         THEN Pair(Moved(op1, op1.position - op2.length), TRUE, op2, FALSE)
         ELSE Pair(Moved(op1, op2.position), TRUE, op2, FALSE)

\* OperationalTransform.transform, DELETE/INSERT branch.
TransformDeleteInsert(op1, op2) ==
    IF op2.position <= op1.position
    THEN Pair(Moved(op1, op1.position + Len(op2.content)), TRUE, op2, FALSE)
    ELSE IF op2.position >= op1.position + op1.length
         THEN Pair(op1, FALSE, Moved(op2, op2.position - op1.length), TRUE)
         ELSE Pair(op1, FALSE, Moved(op2, op1.position), TRUE)

\* OperationalTransform.transform, the four branches with one RETAIN.
TransformRetain(op1, op2) ==
    CASE op1.type = INSERT /\ op2.type = RETAIN ->
            IF op1.position <= op2.position
            THEN Pair(op1, FALSE,
                      Moved(op2, op2.position + Len(op1.content)), TRUE)
            ELSE Pair(op1, FALSE, op2, FALSE)
      [] op1.type = RETAIN /\ op2.type = INSERT ->
            IF op2.position <= op1.position
            THEN Pair(Moved(op1, op1.position + Len(op2.content)), TRUE,
                      op2, FALSE)
            ELSE Pair(op1, FALSE, op2, FALSE)
      [] op1.type = DELETE /\ op2.type = RETAIN ->
            IF op1.position < op2.position
            THEN Pair(op1, FALSE,
                      Moved(op2, Max(op1.position, op2.position - op1.length)),
                      TRUE)
            ELSE Pair(op1, FALSE, op2, FALSE)
      [] op1.type = RETAIN /\ op2.type = DELETE ->
            IF op2.position < op1.position
            THEN Pair(Moved(op1, Max(op2.position, op1.position - op2.length)),
                      TRUE, op2, FALSE)
            ELSE Pair(op1, FALSE, op2, FALSE)
      [] OTHER -> Pair(op1, FALSE, op2, FALSE)

\* OperationalTransform.transform(op1, op2) -> (transformed_op1, transformed_op2)
Transform(op1, op2) ==
    CASE op1.type = RETAIN /\ op2.type = RETAIN -> Pair(op1, FALSE, op2, FALSE)
      [] op1.type = INSERT /\ op2.type = INSERT -> TransformInsertInsert(op1, op2)
      [] op1.type = DELETE /\ op2.type = DELETE -> TransformDeleteDelete(op1, op2)
      [] op1.type = INSERT /\ op2.type = DELETE -> TransformInsertDelete(op1, op2)
      [] op1.type = DELETE /\ op2.type = INSERT -> TransformDeleteInsert(op1, op2)
      [] OTHER -> TransformRetain(op1, op2)

\* Python's slice index: text[:p] and text[p:] clamp p into 0..len(text),
\* a negative p counting from the end.
SliceIndex(n, p) ==
    IF p < 0 THEN Max(n + p, 0) ELSE Min(p, n)

\* text[:p]
SliceTo(text, p) == SubSeq(text, 1, SliceIndex(Len(text), p))

\* text[p:]
SliceFrom(text, p) == SubSeq(text, SliceIndex(Len(text), p) + 1, Len(text))

\* apply_operation with a bounds check that drops a Delete reaching past the
\* end of the text.
ApplyOpStrict(text, operation) ==
    CASE operation.type = INSERT ->
            SliceTo(text, operation.position) \o operation.content
                \o SliceFrom(text, operation.position)
      [] operation.type = DELETE ->
            IF operation.position + operation.length > Len(text) THEN text
            ELSE SliceTo(text, operation.position)
                    \o SliceFrom(text, operation.position + operation.length)
      [] operation.type = REPLACE -> operation.content
      [] OTHER -> text

\* OperationalTransform.apply_operation(text, operation) -> str
ApplyOp(text, operation) ==
    CASE operation.type = INSERT ->
            SliceTo(text, operation.position) \o operation.content
                \o SliceFrom(text, operation.position)
      [] operation.type = DELETE ->
            LET start == operation.position
                end == Min(operation.position + operation.length, Len(text))
            IN  SliceTo(text, start) \o SliceFrom(text, end)
      [] operation.type = REPLACE -> operation.content
      [] OTHER -> text

\* The loop of transform_against_history over history[k..]: cur is
\* transformed_op, fresh tells whether it is a new object by now.
RECURSIVE FoldHistory(_, _, _, _, _)
FoldHistory(operation, history, k, cur, fresh) ==
    IF k > Len(history) THEN [op |-> cur, fresh |-> fresh]
    ELSE IF history[k].version >= operation.version
         THEN FoldHistory(operation, history, k + 1, cur, fresh)
         ELSE LET t == Transform(cur, history[k])
              IN  FoldHistory(operation, history, k + 1, t.op1,
                              fresh \/ t.new1)

\* OperationalTransform.transform_against_history(operation, history);
\* .op is the operation returned, .fresh whether it is another object than
\* the operation passed in.
TransformAgainstHistory(operation, history) ==
    FoldHistory(operation, history, 1, operation, FALSE)

\* transform_against_history transforming the operation in place: the
\* rebased position and length are written into the object passed in.
RebaseCallInPlace(operation, history) ==
    LET t == TransformAgainstHistory(operation, history)
    IN  [result |-> t.op, operation |-> t.op, history |-> history]

\* One call of transform_against_history(operation, history) on objects of
\* the caller: the operation returned and the two arguments as they are
\* after the call.  No statement of transform_against_history or transform
\* assigns to a field of an argument or to the list.
RebaseCall(operation, history) ==
    LET t == TransformAgainstHistory(operation, history)
    IN  [result |-> t.op, operation |-> operation, history |-> history]

\* ---------------------------------------------------------- DocumentState

\* DocumentState.__init__(document_id, content, version): operations = [].
DocumentState(content, version) ==
    [content |-> content, version |-> version, operations |-> << >>]

\* An operation whose position is no integer (a JSON string): every
\* comparison and slice on it raises TypeError.  The model keeps positions
\* integer and marks such an operation by this position.
BadPosition == -99

\* apply_operation without its "self.version += 1".
DocApplyNoBump(state, operation) ==
    IF operation.position = BadPosition
    THEN [state |-> state, ok |-> FALSE, arg |-> operation]
    ELSE LET t == TransformAgainstHistory(operation, state.operations)
             logged == [t.op EXCEPT !.version = state.version]
         IN  [state |-> [content |-> ApplyOp(state.content, t.op),
                         version |-> state.version,
                         operations |-> Append(state.operations, logged)],
              ok |-> TRUE,
              arg |-> IF t.fresh THEN operation ELSE logged]

\* apply_operation without its "self.operations.append(transformed_op)".
DocApplyNoLog(state, operation) ==
    IF operation.position = BadPosition
    THEN [state |-> state, ok |-> FALSE, arg |-> operation]
    ELSE LET t == TransformAgainstHistory(operation, state.operations)
             version == state.version + 1
             logged == [t.op EXCEPT !.version = version]
         IN  [state |-> [content |-> ApplyOp(state.content, t.op),
                         version |-> version,
                         operations |-> state.operations],
              ok |-> TRUE,
              arg |-> IF t.fresh THEN operation ELSE logged]

\* apply_operation with "self.version += 1" moved in front of the try body's
\* first statement: a failing call leaves the version bumped.
DocApplyFailDirty(state, operation) ==
    IF operation.position = BadPosition
    THEN [state |-> [state EXCEPT !.version = @ + 1], ok |-> FALSE,
          arg |-> operation]
    ELSE LET t == TransformAgainstHistory(operation, state.operations)
             version == state.version + 1
             logged == [t.op EXCEPT !.version = version]
         IN  [state |-> [content |-> ApplyOp(state.content, t.op),
                         version |-> version,
                         operations |-> Append(state.operations, logged)],
              ok |-> TRUE,
              arg |-> IF t.fresh THEN operation ELSE logged]

\* DocumentState.apply_operation(operation).  Returns the state after the
\* call (.state), the bool returned (.ok) and the caller's operation object
\* after the call (.arg): the code writes the new version into transformed_op,
\* which is the caller's object unless a transform built a new one.
DocApply(state, operation) ==
    IF operation.position = BadPosition
    THEN [state |-> state, ok |-> FALSE, arg |-> operation]
    ELSE LET t == TransformAgainstHistory(operation, state.operations)
             version == state.version + 1
             logged == [t.op EXCEPT !.version = version]
         IN  [state |-> [content |-> ApplyOp(state.content, t.op),
                         version |-> version,
                         operations |-> Append(state.operations, logged)],
              ok |-> TRUE,
              arg |-> IF t.fresh THEN operation ELSE logged]

\* get_operations_since with "op.version >= version".
GetOperationsSinceInclusive(state, version) ==
    SelectSeq(state.operations, LAMBDA op : op.version >= version)

\* DocumentState.get_operations_since(version):
\* [op for op in self.operations if op.version > version]
GetOperationsSince(state, version) ==
    SelectSeq(state.operations, LAMBDA op : op.version > version)

\* ------------------------------------------------------------------ state

VARIABLES
    \* --- two concurrent operations on one DocumentState (SpecOT)
    doc,        \* the text both operations were computed against
    opA, opB,   \* the two concurrent operations
    st,         \* the DocumentState they are submitted to
    order,      \* which of them apply_operation has taken so far, in order
    tAB, tBA,   \* transform(opA, opB) and transform(opB, opA), once computed
    \* --- two calls of transform_against_history (SpecRebase)
    rbOp,       \* the Operation object passed to both calls
    rbHist,     \* the history list passed to both calls
    rebased,    \* the operations the calls made so far returned, in order
    \* --- the registry of routes.py (Spec, SpecSubmit)
    document_states,     \* dict document_id -> DocumentState
    active_connections,  \* dict document_id -> list of websockets
    docOf,      \* the document_id of each websocket's endpoint call
    stage,      \* where each websocket_endpoint coroutine stands
    alive,      \* whether the client side of the websocket is still open
    hdl,        \* locals of the handle_operation call a coroutine is inside
    inbox,      \* the messages each client has been sent, in order
    nextId,     \* the next operation id (uuid) from_dict hands out
    quota,      \* the number of operation messages the clients of a run send
    submitter,  \* history: the websocket each operation id came from
    submitted,  \* history: the operation of each id and whether it was taken
    accepted,   \* history: per document, the ids apply_operation accepted
    missed,     \* history: (id, websocket) a finished broadcast left out
    \* --- checkpoint-1: one call of transform_operation (SpecCheckpoint)
    cpOp1, cpOp2,       \* the two Operation objects passed to the call
    cpResult,           \* the pair the call returned, once made
    \* --- checkpoint-2: the WebSocketManager instance (SpecManager)
    websocket_manager,  \* its four dicts: document_connections,
                        \* user_sessions, document_states, operation_history
    task,       \* where the manager coroutine of each websocket stands
    sent,       \* the messages send_text was given, per websocket, in order
    received,   \* history: the text_operation message handled last
    calls       \* the number of text_operation messages still to come

rbVars == <<rbOp, rbHist, rebased>>
otVars == <<doc, opA, opB, st, order, tAB, tBA, rbOp, rbHist, rebased>>
regVars == <<document_states, active_connections, docOf, stage, alive, hdl,
             inbox, nextId, quota, submitter, submitted, accepted, missed>>
cpVars == <<cpOp1, cpOp2, cpResult, websocket_manager, task, sent, received,
            calls>>
vars == <<doc, opA, opB, st, order, tAB, tBA, rbOp, rbHist, rebased,
          document_states,
          active_connections, docOf, stage, alive, hdl, inbox, nextId,
          quota, submitter, submitted, accepted, missed,
          cpOp1, cpOp2, cpResult, websocket_manager, task, sent, received,
          calls>>

\* The characters of base texts and of inserted payloads, all distinct, so
\* that two texts differ whenever they keep different characters.
Letters == <<"a", "b", "c", "d", "e", "f", "g", "h">>
Payloads == {<<"x">>, <<"y", "z">>}

Texts == {SubSeq(Letters, 1, n) : n \in 0..Min(MaxDocLen, Len(Letters))}

\* The Insert and Delete operations that are valid against text, all with
\* base version 0.
ValidOps(text, id) ==
    {Operation(id, INSERT, p, c, 0, 0) : p \in 0..Len(text), c \in Payloads}
    \cup
    UNION {{Operation(id, DELETE, p, << >>, n, 0) : n \in 1..(Len(text) - p)}
           : p \in 0..Len(text)}

NoPair == Pair(Operation("", RETAIN, 0, << >>, 0, 0), FALSE,
               Operation("", RETAIN, 0, << >>, 0, 0), FALSE)

\* ------------------------------------------------- the registry's values

Docs == {"d1", "d2"}

\* The websockets: three clients, numbered in the order they connect.
Conns == {1, 2, 3}

EmptyDict == [k \in {} |-> 0]
DictSet(f, k, v) == [x \in DOMAIN f \cup {k} |-> IF x = k THEN v ELSE f[x]]
DictDel(f, k) == [x \in DOMAIN f \ {k} |-> f[x]]

\* list.remove(x) when x is in the list: drops its first occurrence.
ListRemove(l, x) ==
    LET k == CHOOSE j \in 1..Len(l) : l[j] = x /\ \A m \in 1..(j - 1) : l[m] # x
    IN  SubSeq(l, 1, k - 1) \o SubSeq(l, k + 1, Len(l))

InList(l, x) == \E j \in 1..Len(l) : l[j] = x

NoOp == Operation(0, RETAIN, 0, << >>, 0, 0)
NoMsg == [type |-> "none", operation |-> NoOp, document_version |-> 0,
          document_content |-> << >>]

\* The locals of a coroutine that is inside no handler.
Idle == [msg |-> NoMsg, excl |-> 0, i |-> 0, target |-> 0, disc |-> << >>,
         live |-> TRUE, copy |-> << >>,
         room |-> {}, tried |-> {}]

\* The documents the clients of a run use; the REST calls address these.
Rooms == {docOf[w] : w \in {x \in Conns : stage[x] # "off"}}

\* ------------------------------------- the checkpoints' values at rest

\* checkpoint-1: no call of transform_operation made yet.
NoCpOp == [type |-> "none", position |-> 0, text |-> << >>, length |-> 0]
NoResult == <<NoCpOp, NoCpOp>>

\* checkpoint-2: WebSocketManager.__init__, the four dicts empty.
NewManager ==
    [document_connections |-> EmptyDict, user_sessions |-> EmptyDict,
     document_states |-> EmptyDict, operation_history |-> EmptyDict]

\* Neither checkpoint is in use.
InitCheckpointIdle ==
    /\ cpOp1 = NoCpOp /\ cpOp2 = NoCpOp /\ cpResult = NoResult
    /\ websocket_manager = NewManager
    /\ task = [w \in Conns |-> "off"]
    /\ sent = [w \in Conns |-> << >>]
    /\ received = << >>
    /\ calls = 0

InitRebaseIdle == rbOp = NoOp /\ rbHist = << >> /\ rebased = << >>

InitOTIdle ==
    /\ doc = << >> /\ opA = NoOp /\ opB = NoOp
    /\ st = DocumentState(<< >>, 0)
    /\ order = << >> /\ tAB = NoPair /\ tBA = NoPair
    /\ InitRebaseIdle

\* The registry at start-up (both dicts empty) in a run where the clients
\* in clients connect and send ops operation messages.
InitRoutes(clients, ops) ==
    /\ document_states = EmptyDict
    /\ active_connections = EmptyDict
    /\ stage = [w \in Conns |-> IF w \in clients THEN "new" ELSE "off"]
    /\ alive = [w \in Conns |-> TRUE]
    /\ hdl = [w \in Conns |-> Idle]
    /\ inbox = [w \in Conns |-> << >>]
    /\ nextId = 1
    /\ quota = ops
    /\ submitter = << >>
    /\ submitted = << >>
    /\ accepted = [d \in Docs |-> << >>]
    /\ missed = {}

\* The same, the checkpoints not in use.
InitRegistryOn(clients, ops) ==
    /\ InitRoutes(clients, ops)
    /\ InitCheckpointIdle

\* The same, all clients on document d1.
InitRegistry(clients, ops) ==
    /\ docOf = [w \in Conns |-> "d1"]
    /\ InitRegistryOn(clients, ops)

InitRegIdle == InitRegistry({}, 0)

\* ------------------------- SpecOT: two concurrent operations, one document

InitOT ==
    /\ doc \in Texts
    /\ opA \in ValidOps(doc, "A")
    /\ opB \in ValidOps(doc, "B")
    /\ st = DocumentState(doc, 0)
    /\ order = << >>
    /\ tAB = NoPair /\ tBA = NoPair
    /\ InitRebaseIdle
    /\ InitRegIdle

\* OperationalTransform.transform(opA, opB)
TransformAB ==
    /\ tAB = NoPair
    /\ tAB' = Transform(opA, opB)
    /\ UNCHANGED <<doc, opA, opB, st, order, tBA>>
    /\ UNCHANGED rbVars
    /\ UNCHANGED regVars
    /\ UNCHANGED cpVars

\* OperationalTransform.transform(opB, opA)
TransformBA ==
    /\ tBA = NoPair
    /\ tBA' = Transform(opB, opA)
    /\ UNCHANGED <<doc, opA, opB, st, order, tAB>>
    /\ UNCHANGED rbVars
    /\ UNCHANGED regVars
    /\ UNCHANGED cpVars

InOrder(x) == \E k \in 1..Len(order) : order[k] = x

\* st.apply_operation(opA)
SubmitA ==
    /\ ~InOrder("A")
    /\ st' = DocApply(st, opA).state
    /\ order' = Append(order, "A")
    /\ UNCHANGED <<doc, opA, opB, tAB, tBA>>
    /\ UNCHANGED rbVars
    /\ UNCHANGED regVars
    /\ UNCHANGED cpVars

\* st.apply_operation(opB)
SubmitB ==
    /\ ~InOrder("B")
    /\ st' = DocApply(st, opB).state
    /\ order' = Append(order, "B")
    /\ UNCHANGED <<doc, opA, opB, tAB, tBA>>
    /\ UNCHANGED rbVars
    /\ UNCHANGED regVars
    /\ UNCHANGED cpVars

NextOT == TransformAB \/ TransformBA \/ SubmitA \/ SubmitB

SpecOT == InitOT /\ [][NextOT]_vars

\* ------------------- SpecRebase: transform_against_history, called twice

\* The logs of up to two operations on the longest text, entry k carrying
\* version k as apply_operation stamps it.
Histories ==
    LET ops == ValidOps(SubSeq(Letters, 1, MaxDocLen), "H")
    IN  {<< >>}
        \cup {<<[a EXCEPT !.version = 1]>> : a \in ops}
        \cup {<<[a EXCEPT !.version = 1], [b EXCEPT !.version = 2]>> :
                a \in ops, b \in ops}

InitRebase ==
    /\ \E v \in 0..3 :
        rbOp \in {[a EXCEPT !.version = v] :
                    a \in ValidOps(SubSeq(Letters, 1, MaxDocLen), "A")}
    /\ rbHist \in Histories
    /\ rebased = << >>
    /\ doc = << >> /\ opA = NoOp /\ opB = NoOp
    /\ st = DocumentState(<< >>, 0)
    /\ order = << >> /\ tAB = NoPair /\ tBA = NoPair
    /\ InitRegIdle

\* OperationalTransform.transform_against_history(rbOp, rbHist), the first
\* and the second time, on the objects as the call before left them.
Rebase ==
    LET r == RebaseCall(rbOp, rbHist) IN
    /\ Len(rebased) < 2
    /\ rebased' = Append(rebased, r.result)
    /\ rbOp' = r.operation
    /\ rbHist' = r.history
    /\ UNCHANGED <<doc, opA, opB, st, order, tAB, tBA>>
    /\ UNCHANGED regVars
    /\ UNCHANGED cpVars

SpecRebase == InitRebase /\ [][Rebase]_vars

\* The Insert and Delete operations at and around the end of text: positions
\* up to one past the end, Deletes reaching up to the end and beyond it.
BoundaryOps(text, id) ==
    {Operation(id, INSERT, p, c, 0, 0) :
        p \in 0..(Len(text) + 1), c \in Payloads}
    \cup
    {Operation(id, DELETE, p, << >>, n, 0) :
        p \in 0..(Len(text) + 1), n \in 1..(Len(text) + 1)}

\* Two operations at the boundary of one DocumentState.
InitBoundary ==
    /\ doc \in Texts
    /\ opA \in BoundaryOps(doc, "A")
    /\ opB \in BoundaryOps(doc, "B")
    /\ st = DocumentState(doc, 0)
    /\ order = << >>
    /\ tAB = NoPair /\ tBA = NoPair
    /\ InitRebaseIdle
    /\ InitRegIdle

SpecBoundary == InitBoundary /\ [][NextOT]_vars


\* ------------------------------------------- the registry: routes.py

\* A "type" that is no member of OperationType: OperationType(data["type"])
\* in from_dict raises ValueError.
BadType == "bogus"

\* The operations a client puts into an "operation" message: an Insert of
\* one fresh character or a Delete, at a small position, tagged with the
\* client's base version (the document's version, or the one before it when
\* the client has not yet seen the last operation); an operation whose
\* position is no integer; one whose type is unknown; an Insert at the
\* negative position -1.
ClientOps(id, cur) ==
    {Operation(id, INSERT, p, <<Letters[id]>>, 0, v) :
        p \in 0..MaxPos, v \in {cur, Max(cur - 1, 0)}}
    \cup {Operation(id, DELETE, p, << >>, n, v) :
        p \in 0..MaxPos, n \in 1..MaxPos, v \in {cur, Max(cur - 1, 0)}}
    \cup {Operation(id, INSERT, BadPosition, <<Letters[id]>>, 0, 0),
          Operation(id, BadType, 0, <<Letters[id]>>, 0, 0),
          Operation(id, INSERT, -1, <<Letters[id]>>, 0, cur)}

\* The list a running broadcast iterates: the list object it started on,
\* which is active_connections[d] unless that key was deleted meanwhile.
IterList(w) ==
    IF hdl[w].live THEN active_connections[docOf[w]] ELSE hdl[w].copy

\* del active_connections[d]: the broadcasts iterating that list object keep
\* it (with the contents l it has at that moment); nothing reaches it again.
Detach(h, d, l) ==
    [w \in Conns |->
        IF stage[w] \in {"send", "sent"} /\ docOf[w] = d /\ h[w].live
        THEN [h[w] EXCEPT !.live = FALSE, !.copy = l]
        ELSE h[w]]

\* A websocket leaves the list of d: every broadcast running on d stops
\* counting it among the connections that stayed in the room.
Left(h, d, gone) ==
    [w \in Conns |->
        IF stage[w] \in {"send", "sent"} /\ docOf[w] = d
        THEN [h[w] EXCEPT !.room = @ \ gone]
        ELSE h[w]]

\* websocket.send_text(message) to client t: the message is delivered.
Deliver(box, t, m) == [box EXCEPT ![t] = Append(@, m)]

ErrorMsg == [type |-> "operation_error", operation |-> NoOp,
             document_version |-> 0, document_content |-> << >>]

\* handle_operation's reply await websocket.send_text({"type":
\* "operation_error", ...}); on a closed websocket the send raises, and so
\* does the error reply of handle_websocket_message, which passes.
ReplyError(box, w) == IF alive[w] THEN Deliver(box, w, ErrorMsg) ELSE box

\* broadcast_to_document, the removal of the disconnected websockets:
\* active_connections[document_id].remove(ws) for each, ValueError passed.
RECURSIVE RemoveAll(_, _)
RemoveAll(l, disc) ==
    IF disc = << >> THEN l
    ELSE RemoveAll(IF InList(l, Head(disc)) THEN ListRemove(l, Head(disc))
                   ELSE l,
                   Tail(disc))

SeqToSet(q) == {q[k] : k \in 1..Len(q)}

\* broadcast_to_document from the point where the for loop asks the list
\* iterator for its next element (h: the locals of coroutine w, h.excl the
\* exclude_websocket, 0 for None): the excluded websocket is passed over
\* without a suspension; the coroutine then stands in the send to the next
\* websocket, or the loop is over, the disconnected websockets are removed
\* and the handler returns to the receive loop.  A KeyError of the removal
\* (the key was deleted meanwhile) reaches handle_operation's except, which
\* replies operation_error; the presence handlers log it.
Advance(w, h, l) ==
    LET d == docOf[w]
        next == {j \in (h.i + 1)..Len(l) : l[j] # h.excl}
    IN  IF next # {}
        THEN LET j == CHOOSE x \in next : \A y \in next : x <= y
             IN  /\ stage' = [stage EXCEPT ![w] = "send"]
                 /\ hdl' = [hdl EXCEPT ![w] = [h EXCEPT !.i = j, !.target = l[j]]]
                 /\ UNCHANGED <<active_connections, inbox, missed>>
        ELSE /\ stage' = [stage EXCEPT ![w] = "loop"]
             /\ missed' = missed \cup
                    {<<h.msg.operation.id, x>> :
                        x \in (h.room \ h.tried) \ {h.excl}}
             /\ IF h.disc = << >>
                THEN /\ hdl' = [hdl EXCEPT ![w] = Idle]
                     /\ UNCHANGED <<active_connections, inbox>>
                ELSE IF d \in DOMAIN active_connections
                THEN /\ active_connections' =
                        [active_connections EXCEPT
                            ![d] = RemoveAll(@, h.disc)]
                     /\ hdl' = [Left(hdl, d, SeqToSet(h.disc))
                                    EXCEPT ![w] = Idle]
                     /\ UNCHANGED inbox
                ELSE /\ inbox' = IF h.msg.type = "operation_applied"
                                 THEN ReplyError(inbox, w) ELSE inbox
                     /\ hdl' = [hdl EXCEPT ![w] = Idle]
                     /\ UNCHANGED active_connections

\* websocket_endpoint up to the receive loop: accept, create the document
\* state if it is missing, append the websocket to the document's list.
\* The websockets are numbered in the order they connect.
Connect(w) ==
    LET d == docOf[w] IN
    /\ stage[w] = "new"
    /\ \A x \in Conns : x < w => stage[x] # "new"
    /\ document_states' =
        IF d \in DOMAIN document_states THEN document_states
        ELSE DictSet(document_states, d, DocumentState(<< >>, 0))
    /\ active_connections' =
        DictSet(active_connections, d,
                Append(IF d \in DOMAIN active_connections
                       THEN active_connections[d] ELSE << >>, w))
    /\ stage' = [stage EXCEPT ![w] = "loop"]
    /\ UNCHANGED <<docOf, alive, hdl, inbox, nextId, quota, submitter, submitted,
                   accepted, missed>>
    /\ UNCHANGED otVars
    /\ UNCHANGED cpVars

\* The client closes its side of the websocket.
ClientClose(w) ==
    /\ stage[w] \in {"loop", "send", "sent"}
    /\ alive[w]
    /\ alive' = [alive EXCEPT ![w] = FALSE]
    /\ UNCHANGED <<document_states, active_connections, docOf, stage, hdl,
                   inbox, nextId, quota, submitter, submitted, accepted, missed>>
    /\ UNCHANGED otVars
    /\ UNCHANGED cpVars

\* websocket_endpoint: receive_text raises WebSocketDisconnect and the
\* finally block removes the websocket from the list, deleting the key when
\* the list becomes empty (connected_user is None: no auth message was sent).
Disconnect(w) ==
    LET d == docOf[w] IN
    /\ stage[w] = "loop"
    /\ ~alive[w]
    /\ stage' = [stage EXCEPT ![w] = "done"]
    /\ IF d \in DOMAIN active_connections /\ InList(active_connections[d], w)
       THEN LET l == ListRemove(active_connections[d], w)
            IN  IF l = << >>
                THEN /\ active_connections' = DictDel(active_connections, d)
                     /\ hdl' = Detach(Left(hdl, d, {w}), d, l)
                ELSE /\ active_connections' =
                        [active_connections EXCEPT ![d] = l]
                     /\ hdl' = Left(hdl, d, {w})
       ELSE UNCHANGED <<active_connections, hdl>>
    /\ UNCHANGED <<document_states, docOf, alive, inbox, nextId, quota,
                   submitter, submitted, accepted, missed>>
    /\ UNCHANGED otVars
    /\ UNCHANGED cpVars


\* One DocumentState object stored under every id: a call changes them all.
SetStateShared(states, d, s) == [x \in DOMAIN states |-> s]

\* document_states[document_id].apply_operation(operation) changes the
\* DocumentState object stored under d, and that object alone.
SetState(states, d, s) == [states EXCEPT ![d] = s]

\* websocket_endpoint receives an "operation" message and handle_operation
\* runs up to its first suspension: Operation.from_dict, apply_operation on
\* the document's state and, on success, broadcast_to_document(document_id,
\* {operation_applied, operation.to_dict(), version, content}, websocket)
\* up to its first send; otherwise the operation_error reply.
Submit(w) ==
    LET d == docOf[w] IN
    /\ stage[w] = "loop"
    /\ alive[w]
    /\ nextId <= quota
    /\ nextId' = nextId + 1
    /\ submitter' = Append(submitter, w)
    /\ UNCHANGED <<docOf, alive, quota>>
    /\ UNCHANGED otVars
    /\ UNCHANGED cpVars
    /\ IF d \notin DOMAIN document_states
       THEN \* document_states[document_id] raises KeyError
            /\ inbox' = ReplyError(inbox, w)
            /\ submitted' = Append(submitted, [op |-> NoOp, ok |-> FALSE])
            /\ UNCHANGED <<document_states, active_connections, stage, hdl,
                           accepted, missed>>
       ELSE \E operation \in ClientOps(nextId, document_states[d].version) :
            LET r == DocApply(document_states[d], operation)
                message == [type |-> "operation_applied",
                            operation |-> r.arg,
                            document_version |-> r.state.version,
                            document_content |-> r.state.content]
                h == [Idle EXCEPT
                        !.msg = message,
                        !.excl = w,
                        !.room = IF d \in DOMAIN active_connections
                                 THEN SeqToSet(active_connections[d]) ELSE {}]
                ok == operation.type \in OperationType /\ r.ok
            IN  /\ submitted' = Append(submitted, [op |-> operation, ok |-> ok])
                /\ IF ok
                   THEN /\ document_states' =
                            SetState(document_states, d, r.state)
                        /\ accepted' =
                            [accepted EXCEPT ![d] = Append(@, operation.id)]
                        /\ IF d \in DOMAIN active_connections
                           THEN Advance(w, h, active_connections[d])
                           ELSE UNCHANGED <<active_connections, stage, hdl,
                                            inbox, missed>>
                   ELSE /\ inbox' = ReplyError(inbox, w)
                        /\ document_states' =
                            IF operation.type \in OperationType
                            THEN SetState(document_states, d, r.state)
                            ELSE document_states
                        /\ UNCHANGED <<active_connections, stage, hdl,
                                       accepted, missed>>

\* broadcast_to_document, one await websocket.send_text(json.dumps(message))
\* of coroutine w's broadcast: the message reaches the target, or the send
\* raises and the target is appended to disconnected.
SendStep(w) ==
    LET t == hdl[w].target IN
    /\ stage[w] = "send"
    /\ stage' = [stage EXCEPT ![w] = "sent"]
    /\ IF alive[t]
       THEN /\ inbox' = Deliver(inbox, t, hdl[w].msg)
            /\ hdl' = [hdl EXCEPT ![w].tried = @ \cup {t}]
       ELSE /\ hdl' = [hdl EXCEPT ![w].tried = @ \cup {t},
                                  ![w].disc = Append(@, t)]
            /\ UNCHANGED inbox
    /\ UNCHANGED <<document_states, active_connections, docOf, alive, nextId,
                   quota, submitter, submitted, accepted, missed>>
    /\ UNCHANGED otVars
    /\ UNCHANGED cpVars

\* broadcast_to_document resumes after a send and goes on with the loop.
Resume(w) ==
    /\ stage[w] = "sent"
    /\ Advance(w, hdl[w], IterList(w))
    /\ UNCHANGED <<document_states, docOf, alive, nextId, quota, submitter, submitted,
                   accepted>>
    /\ UNCHANGED otVars
    /\ UNCHANGED cpVars

PresenceTypes == {"cursor_update", "typing_start", "typing_stop"}

\* The presence messages the clients have been sent so far.
RECURSIVE PresenceCount(_)
PresenceCount(ws) ==
    IF ws = {} THEN 0
    ELSE LET w == CHOOSE x \in ws : TRUE
         IN  Len(SelectSeq(inbox[w], LAMBDA m : m.type \in PresenceTypes))
                + PresenceCount(ws \ {w})

\* websocket_endpoint receives a cursor_update (with a user_id), typing_start
\* or typing_stop message: the handler runs up to the first send of its
\* broadcast_to_document(document_id, {...}, None).  What it does to
\* everything but document_states.
PresenceBroadcast(w, type) ==
    LET d == docOf[w]
        h == [Idle EXCEPT
                !.msg = [NoMsg EXCEPT !.type = type],
                !.room = IF d \in DOMAIN active_connections
                         THEN SeqToSet(active_connections[d]) ELSE {}]
    IN  /\ stage[w] = "loop"
        /\ alive[w]
        /\ PresenceCount(Conns) < MaxPresence
        /\ IF d \in DOMAIN active_connections
           THEN Advance(w, h, active_connections[d])
           ELSE UNCHANGED <<active_connections, stage, hdl, inbox, missed>>
        /\ UNCHANGED <<docOf, alive, nextId, quota, submitter, submitted,
                       accepted>>
        /\ UNCHANGED otVars
        /\ UNCHANGED cpVars

\* A presence handler that counts the message as an edit of the document.
PresenceTouch(w) ==
    /\ \E type \in PresenceTypes : PresenceBroadcast(w, type)
    /\ document_states' =
        [d \in DOMAIN document_states |->
            IF d = docOf[w]
            THEN [document_states[d] EXCEPT !.version = @ + 1]
            ELSE document_states[d]]

\* handle_cursor_update, handle_typing_start, handle_typing_stop.
Presence(w) ==
    /\ \E type \in PresenceTypes : PresenceBroadcast(w, type)
    /\ UNCHANGED document_states

\* POST /collab/documents with an id: create_document.
CreateDocument(d) ==
    /\ document_states' = DictSet(document_states, d, DocumentState(<< >>, 0))
    /\ UNCHANGED <<active_connections, docOf, stage, alive, hdl, inbox,
                   nextId, quota, submitter, submitted, accepted, missed>>
    /\ UNCHANGED otVars
    /\ UNCHANGED cpVars

\* The contents a client saves.
SavedTexts == {<< >>, <<"s">>}

\* POST /collab/documents/{document_id}/save: save_document.
SaveDocument(d, content) ==
    /\ document_states' =
        DictSet(document_states, d,
                [(IF d \in DOMAIN document_states THEN document_states[d]
                  ELSE DocumentState(<< >>, 0))
                    EXCEPT !.content = content])
    /\ UNCHANGED <<active_connections, docOf, stage, alive, hdl, inbox,
                   nextId, quota, submitter, submitted, accepted, missed>>
    /\ UNCHANGED otVars
    /\ UNCHANGED cpVars

\* GET /collab/documents/{document_id}/state: get_document_state.
GetDocumentState(d) ==
    /\ document_states' =
        IF d \in DOMAIN document_states THEN document_states
        ELSE DictSet(document_states, d, DocumentState(<< >>, 0))
    /\ UNCHANGED <<active_connections, docOf, stage, alive, hdl, inbox,
                   nextId, quota, submitter, submitted, accepted, missed>>
    /\ UNCHANGED otVars
    /\ UNCHANGED cpVars

\* The dict active_connections loses all its keys in gone (del, clear): the
\* broadcasts iterating the lists of those keys keep the list objects, and
\* none of their connections is in a room any more.
DetachAll(h, gone) ==
    [w \in Conns |->
        IF stage[w] \in {"send", "sent"} /\ docOf[w] \in gone
        THEN IF h[w].live /\ docOf[w] \in DOMAIN active_connections
             THEN [h[w] EXCEPT !.live = FALSE,
                               !.copy = active_connections[docOf[w]],
                               !.room = {}]
             ELSE [h[w] EXCEPT !.room = {}]
        ELSE h[w]]

\* DELETE /collab/documents/{document_id}: delete_document, up to its first
\* await; an unknown id is answered 404.
DeleteDocument(d) ==
    /\ d \in DOMAIN document_states
    /\ document_states' = DictDel(document_states, d)
    /\ active_connections' = DictDel(active_connections, d)
    /\ hdl' = DetachAll(hdl, {d})
    /\ UNCHANGED <<docOf, stage, alive, inbox, nextId, quota, submitter,
                   submitted, accepted, missed>>
    /\ UNCHANGED otVars
    /\ UNCHANGED cpVars

\* POST /collab/clear-all: clear_all_documents, up to its first await.
ClearAllDocuments ==
    /\ document_states' = EmptyDict
    /\ active_connections' = EmptyDict
    /\ hdl' = DetachAll(hdl, DOMAIN active_connections)
    /\ UNCHANGED <<docOf, stage, alive, inbox, nextId, quota, submitter,
                   submitted, accepted, missed>>
    /\ UNCHANGED otVars
    /\ UNCHANGED cpVars

\* The websocket traffic alone.
NextSubmit ==
    \E w \in Conns :
        \/ Connect(w)
        \/ ClientClose(w)
        \/ Disconnect(w)
        \/ Submit(w)
        \/ SendStep(w)
        \/ Resume(w)

\* The REST calls.
NextRest ==
    \/ \E d \in Rooms : CreateDocument(d)
    \/ \E d \in Rooms : GetDocumentState(d)
    \/ \E d \in Rooms, content \in SavedTexts : SaveDocument(d, content)

Next == NextSubmit \/ NextRest

\* Two clients, websocket traffic alone.
InitSubmit == InitOTIdle /\ InitRegistry({1, 2}, MaxOps)
SpecSubmit == InitSubmit /\ [][NextSubmit]_vars

\* Two clients, a longer log.
InitLog == InitOTIdle /\ InitRegistry({1, 2}, LogOps)
SpecLog == InitLog /\ [][NextSubmit]_vars

\* Three clients in one room.
InitRoom == InitOTIdle /\ InitRegistry(Conns, RoomOps)
SpecRoom == InitRoom /\ [][NextSubmit]_vars

\* Two clients, operations and presence messages.
NextPresence == NextSubmit \/ \E w \in Conns : Presence(w)
InitPresence == InitOTIdle /\ InitRegistry({1, 2}, PresenceOps)
SpecPresence == InitPresence /\ [][NextPresence]_vars

\* Clients 1 and 3 on document d1, client 2 on document d2.
InitDocs ==
    /\ InitOTIdle
    /\ docOf = [w \in Conns |-> IF w = 2 THEN "d2" ELSE "d1"]
    /\ InitRegistryOn(Conns, DocsOps)
SpecDocs == InitDocs /\ [][NextSubmit]_vars

\* Two clients, the REST calls and the calls that delete documents.
NextAdmin ==
    \/ Next
    \/ \E d \in Rooms : DeleteDocument(d)
    \/ ClearAllDocuments
InitAdmin == InitOTIdle /\ InitRegistry({1, 2}, AdminOps)
SpecAdmin == InitAdmin /\ [][NextAdmin]_vars

\* Two clients and the REST calls.
Init == InitOTIdle /\ InitRegistry({1, 2}, RestOps)
Spec == Init /\ [][Next]_vars

\* -------------- checkpoint-1: OperationalTransform.transform_operation

\* Operation(op_type, position, text=..., length=...): an insert takes its
\* length from its text, a delete or retain has no text.
NewOperation(op_type, position, text, length) ==
    IF op_type = "insert"
    THEN [type |-> op_type, position |-> position, text |-> text,
          length |-> Len(text)]
    ELSE [type |-> op_type, position |-> position, text |-> << >>,
          length |-> length]

transform_insert_insert(op1, op2) ==
    IF op1.position <= op2.position
    THEN <<op1, NewOperation("insert", op2.position + op1.length, op2.text, 0)>>
    ELSE <<NewOperation("insert", op1.position + op2.length, op1.text, 0), op2>>

transform_insert_delete(op1, op2) ==
    IF op1.position <= op2.position
    THEN <<op1,
           NewOperation("delete", op2.position + op1.length, << >>, op2.length)>>
    ELSE <<NewOperation("insert", op1.position - op2.length, op1.text, 0), op2>>

transform_delete_insert(op1, op2) ==
    IF op1.position < op2.position
    THEN <<op1, NewOperation("insert", op2.position - op1.length, op2.text, 0)>>
    ELSE <<NewOperation("delete", op1.position + op2.length, << >>, op1.length),
           op2>>

transform_delete_delete(op1, op2) ==
    IF op1.position < op2.position
    THEN IF op1.position + op1.length <= op2.position
         THEN <<op1, NewOperation("delete", op2.position - op1.length, << >>,
                                  op2.length)>>
         ELSE LET overlap == op1.position + op1.length - op2.position
                  new_length == Max(0, op2.length - overlap)
              IN  IF new_length > 0
                  THEN <<op1, NewOperation("delete",
                                           op2.position - op1.length, << >>,
                                           new_length)>>
                  ELSE <<op1, NewOperation("retain", 0, << >>, 0)>>
    ELSE IF op1.position > op2.position
    THEN IF op2.position + op2.length <= op1.position
         THEN <<NewOperation("delete", op1.position - op2.length, << >>,
                             op1.length), op2>>
         ELSE LET overlap == op2.position + op2.length - op1.position
                  new_length == Max(0, op1.length - overlap)
              IN  IF new_length > 0
                  THEN <<NewOperation("delete", op1.position - op2.length,
                                      << >>, new_length), op2>>
                  ELSE <<NewOperation("retain", 0, << >>, 0), op2>>
    ELSE IF op1.length >= op2.length
         THEN <<NewOperation("delete", op1.position, << >>,
                             op1.length - op2.length),
                NewOperation("retain", 0, << >>, 0)>>
         ELSE <<NewOperation("retain", 0, << >>, 0),
                NewOperation("delete", op2.position, << >>,
                             op2.length - op1.length)>>

transform_operation(op1, op2) ==
    CASE op1.type = "insert" /\ op2.type = "insert" ->
            transform_insert_insert(op1, op2)
      [] op1.type = "insert" /\ op2.type = "delete" ->
            transform_insert_delete(op1, op2)
      [] op1.type = "delete" /\ op2.type = "insert" ->
            transform_delete_insert(op1, op2)
      [] op1.type = "delete" /\ op2.type = "delete" ->
            transform_delete_delete(op1, op2)
      [] OTHER -> <<op1, op2>>

\* The Insert, Delete and Retain operations with non-negative positions and
\* lengths within the bounds.
CpOperations ==
    {NewOperation("insert", p, SubSeq(Letters, 1, n), 0) :
        p \in 0..CpMaxPos, n \in 0..Min(CpMaxLen, Len(Letters))}
    \cup
    {NewOperation(t, p, << >>, n) :
        t \in {"delete", "retain"}, p \in 0..CpMaxPos, n \in 0..CpMaxLen}

\* The routes and the manager at rest.
InitCheckpointRest ==
    /\ InitOTIdle
    /\ docOf = [w \in Conns |-> "d1"]
    /\ InitRoutes({}, 0)

InitCheckpoint ==
    /\ cpOp1 \in CpOperations
    /\ cpOp2 \in CpOperations
    /\ cpResult = NoResult
    /\ websocket_manager = NewManager
    /\ task = [w \in Conns |-> "off"]
    /\ sent = [w \in Conns |-> << >>]
    /\ received = << >>
    /\ calls = 0
    /\ InitCheckpointRest

\* operational_transform.transform_operation(cpOp1, cpOp2)
TransformOperation ==
    /\ cpResult = NoResult
    /\ cpResult' = transform_operation(cpOp1, cpOp2)
    /\ UNCHANGED <<cpOp1, cpOp2, websocket_manager, task, sent, received,
                   calls>>
    /\ UNCHANGED otVars
    /\ UNCHANGED regVars

SpecCheckpoint == InitCheckpoint /\ [][TransformOperation]_vars

\* --------------------------- checkpoint-2: WebSocketManager, one document

\* The document_id all websockets of a run connect to.
ManagerDoc == "d1"

\* The operation dicts the clients send in text_operation messages.
ClientOperations ==
    {[type |-> "insert", position |-> p, text |-> <<"x">>] : p \in 0..1}
    \cup {[type |-> "delete", position |-> 0, length |-> 1]}

\* WebSocketManager._transform_against_operation
transform_against_operation(op1, op2) ==
    CASE op1.type = "insert" /\ op2.type = "insert" ->
            IF op1.position <= op2.position THEN op1
            ELSE [type |-> "insert",
                  position |-> op1.position + Len(op2.text),
                  text |-> op1.text]
      [] op1.type = "insert" /\ op2.type = "delete" ->
            IF op1.position <= op2.position THEN op1
            ELSE [type |-> "insert",
                  position |-> op1.position - op2.length,
                  text |-> op1.text]
      [] op1.type = "delete" /\ op2.type = "insert" ->
            IF op1.position < op2.position THEN op1
            ELSE [type |-> "delete",
                  position |-> op1.position + Len(op2.text),
                  length |-> op1.length]
      [] op1.type = "delete" /\ op2.type = "delete" ->
            IF op1.position < op2.position THEN op1
            ELSE IF op1.position > op2.position
            THEN [type |-> "delete",
                  position |-> op1.position - op2.length,
                  length |-> op1.length]
            ELSE [type |-> "noop"]
      [] OTHER -> op1

\* WebSocketManager._transform_operation: operation folded over
\* operation_history[document_id][client_version:].
manager_transform_operation(operation, history, client_version) ==
    LET concurrent_operations == SliceFrom(history, client_version)
        transformed[k \in 0..Len(concurrent_operations)] ==
            IF k = 0 THEN operation
            ELSE transform_against_operation(
                     transformed[k - 1], concurrent_operations[k].operation)
    IN  transformed[Len(concurrent_operations)]

\* WebSocketManager._apply_operation: the new content.
manager_apply_operation(content, operation) ==
    CASE operation.type = "insert" ->
            SliceTo(content, operation.position) \o operation.text
                \o SliceFrom(content, operation.position)
      [] operation.type = "delete" ->
            SliceTo(content, operation.position)
                \o SliceFrom(content, operation.position + operation.length)
      [] OTHER -> content

\* The slice one record further on.
MissingOperationsOffByOne(history, client_version) ==
    SliceFrom(history, client_version + 1)

\* operation_history[document_id][client_version:]
MissingOperations(history, client_version) ==
    SliceFrom(history, client_version)

\* websocket.send_text(msg) on each websocket in targets.
SendAll(box, targets, msg) ==
    [w \in Conns |-> IF w \in targets THEN Append(box[w], msg) ELSE box[w]]

\* _send_error(websocket, error_message)
SendError(box, w, error_message) ==
    SendAll(box, {w}, [type |-> "error", message |-> error_message])

\* The room, state and history connect gives a document that has no room.
NewRoom == {}
NewState == [content |-> << >>, version |-> 0, active_users |-> << >>]
NewHistory == << >>

\* del document_connections[d], document_states[d], operation_history[d]
TearDown(m) ==
    [m EXCEPT !.document_connections = DictDel(@, ManagerDoc),
              !.document_states = DictDel(@, ManagerDoc),
              !.operation_history = DictDel(@, ManagerDoc)]

\* del user_sessions[websocket]
RemoveSession(m, w) == [m EXCEPT !.user_sessions = DictDel(@, w)]

\* connect(w, ManagerDoc, user_id = w): all its writes come before its first
\* await; the two sends that follow change nothing.
ManagerConnect(w) ==
    /\ task[w] = "new"
    /\ LET m0 == websocket_manager
           fresh == ManagerDoc \notin DOMAIN m0.document_connections
           room == IF fresh THEN NewRoom
                   ELSE m0.document_connections[ManagerDoc]
           state0 == IF fresh THEN NewState
                     ELSE m0.document_states[ManagerDoc]
           history == IF fresh THEN NewHistory
                      ELSE m0.operation_history[ManagerDoc]
           state == [state0 EXCEPT !.active_users = Append(@, w)]
       IN  /\ websocket_manager' =
                [document_connections |->
                     DictSet(m0.document_connections, ManagerDoc,
                             room \cup {w}),
                 user_sessions |->
                     DictSet(m0.user_sessions, w,
                             [document_id |-> ManagerDoc, user_id |-> w]),
                 document_states |->
                     DictSet(m0.document_states, ManagerDoc, state),
                 operation_history |->
                     DictSet(m0.operation_history, ManagerDoc, history)]
           /\ sent' = SendAll(
                        SendAll(sent, {w},
                                [type |-> "document_state",
                                 content |-> state.content,
                                 version |-> state.version,
                                 active_users |-> state.active_users]),
                        room \ {w}, [type |-> "user_joined", user |-> w])
    /\ task' = [task EXCEPT ![w] = "open"]
    /\ UNCHANGED <<cpOp1, cpOp2, cpResult, received, calls>>
    /\ UNCHANGED otVars
    /\ UNCHANGED regVars

\* handle_message(w, text_operation) up to the first await that suspends it:
\* the send of operations_missing for a stale client, else the broadcast of
\* the operation (or, nobody else in the room, the acknowledgment).
HandleTextOperation(w) ==
    /\ task[w] = "open"
    /\ calls > 0
    /\ calls' = calls - 1
    /\ \E operation \in ClientOperations, client_version \in 0..ManagerOps :
        LET m0 == websocket_manager IN
        /\ received' = [websocket |-> w, operation |-> operation,
                        version |-> client_version]
        /\ IF w \notin DOMAIN m0.user_sessions
           THEN /\ sent' = SendError(sent, w, "Not authenticated")
                /\ UNCHANGED <<websocket_manager, task>>
           ELSE IF ManagerDoc \notin DOMAIN m0.document_states
           THEN /\ sent' = SendError(sent, w, "Operation failed")
                /\ UNCHANGED <<websocket_manager, task>>
           ELSE
             LET current_state == m0.document_states[ManagerDoc]
                 server_version == current_state.version
                 history == m0.operation_history[ManagerDoc]
             IN
             IF client_version < server_version
             THEN /\ sent' = SendAll(sent, {w},
                        [type |-> "operations_missing",
                         operations |->
                             MissingOperations(history, client_version),
                         current_version |-> server_version])
                  /\ UNCHANGED <<websocket_manager, task>>
             ELSE
               LET transformed_operation ==
                       manager_transform_operation(operation, history,
                                                   client_version)
                   operation_record ==
                       [operation |-> transformed_operation,
                        version |-> server_version + 1,
                        user_id |-> m0.user_sessions[w].user_id]
                   m1 == [m0 EXCEPT
                           !.document_states = DictSet(@, ManagerDoc,
                               [current_state EXCEPT
                                  !.content = manager_apply_operation(
                                      current_state.content,
                                      transformed_operation),
                                  !.version = server_version + 1]),
                           !.operation_history = DictSet(@, ManagerDoc,
                               Append(history, operation_record))]
                   connections ==
                       IF ManagerDoc \in DOMAIN m1.document_connections
                       THEN m1.document_connections[ManagerDoc] \ {w}
                       ELSE {}
               IN  /\ websocket_manager' = m1
                   /\ IF connections # {}
                      THEN /\ sent' = SendAll(sent, connections,
                                  [type |-> "text_operation",
                                   operation |-> transformed_operation,
                                   version |-> server_version + 1,
                                   user_id |-> m0.user_sessions[w].user_id])
                           /\ task' = [task EXCEPT ![w] = "broadcast"]
                      ELSE /\ sent' = SendAll(sent, {w},
                                  [type |-> "operation_applied",
                                   version |-> server_version + 1])
                           /\ UNCHANGED task
    /\ UNCHANGED <<cpOp1, cpOp2, cpResult>>
    /\ UNCHANGED otVars
    /\ UNCHANGED regVars

\* _handle_text_operation after its broadcast: the acknowledgment, with the
\* version the document has by then.
HandleTextOperationResume(w) ==
    /\ task[w] = "broadcast"
    /\ sent' = IF ManagerDoc \in DOMAIN websocket_manager.document_states
               THEN SendAll(sent, {w},
                       [type |-> "operation_applied",
                        version |->
                          websocket_manager.document_states[ManagerDoc].version])
               ELSE SendError(sent, w, "Operation failed")
    /\ task' = [task EXCEPT ![w] = "open"]
    /\ UNCHANGED <<cpOp1, cpOp2, cpResult, websocket_manager, received, calls>>
    /\ UNCHANGED otVars
    /\ UNCHANGED regVars

\* disconnect(w) up to its broadcast of user_left, which suspends it when
\* somebody is left in the room; with nobody left it runs to its end.
ManagerDisconnect(w) ==
    /\ task[w] = "open"
    /\ LET m0 == websocket_manager IN
       IF w \notin DOMAIN m0.user_sessions
       THEN /\ task' = [task EXCEPT ![w] = "closed"]
            /\ UNCHANGED <<websocket_manager, sent>>
       ELSE IF ManagerDoc \in DOMAIN m0.document_connections
       THEN LET connections == m0.document_connections[ManagerDoc] \ {w}
                state == m0.document_states[ManagerDoc]
                user_id == m0.user_sessions[w].user_id
                m1 == [m0 EXCEPT
                        !.document_connections =
                            DictSet(@, ManagerDoc, connections),
                        !.document_states = DictSet(@, ManagerDoc,
                            [state EXCEPT !.active_users =
                                SelectSeq(@, LAMBDA user : user # user_id)])]
            IN  IF connections # {}
                THEN /\ websocket_manager' = m1
                     /\ sent' = SendAll(sent, connections,
                                    [type |-> "user_left",
                                     user_id |-> user_id])
                     /\ task' = [task EXCEPT ![w] = "leaving"]
                ELSE /\ websocket_manager' = RemoveSession(TearDown(m1), w)
                     /\ task' = [task EXCEPT ![w] = "closed"]
                     /\ UNCHANGED sent
       ELSE /\ websocket_manager' = RemoveSession(m0, w)
            /\ task' = [task EXCEPT ![w] = "closed"]
            /\ UNCHANGED sent
    /\ UNCHANGED <<cpOp1, cpOp2, cpResult, received, calls>>
    /\ UNCHANGED otVars
    /\ UNCHANGED regVars

\* disconnect(w) after its broadcast.  document_connections[document_id]
\* raises KeyError when the room was torn down meanwhile: the except clause
\* logs it and the session is never removed.
ManagerDisconnectResume(w) ==
    /\ task[w] = "leaving"
    /\ LET m0 == websocket_manager IN
       websocket_manager' =
           IF ManagerDoc \notin DOMAIN m0.document_connections THEN m0
           ELSE IF m0.document_connections[ManagerDoc] = {}
           THEN RemoveSession(TearDown(m0), w)
           ELSE RemoveSession(m0, w)
    /\ task' = [task EXCEPT ![w] = "closed"]
    /\ UNCHANGED <<cpOp1, cpOp2, cpResult, sent, received, calls>>
    /\ UNCHANGED otVars
    /\ UNCHANGED regVars

NextManager ==
    \E w \in Conns :
        \/ ManagerConnect(w)
        \/ HandleTextOperation(w)
        \/ HandleTextOperationResume(w)
        \/ ManagerDisconnect(w)
        \/ ManagerDisconnectResume(w)

\* Two websockets that connect to one document, send ManagerOps
\* text_operation messages between them and disconnect.
InitManager ==
    /\ cpOp1 = NoCpOp /\ cpOp2 = NoCpOp /\ cpResult = NoResult
    /\ websocket_manager = NewManager
    /\ task = [w \in Conns |-> IF w \in {1, 2} THEN "new" ELSE "off"]
    /\ sent = [w \in Conns |-> << >>]
    /\ received = << >>
    /\ calls = ManagerOps
    /\ InitCheckpointRest

SpecManager == InitManager /\ [][NextManager]_vars

\* ----------------------------------------------------- claims under SpecOT

\* The content a fresh DocumentState(doc) ends with after taking first, then
\* second.
FinalContent(first, second) ==
    DocApply(DocApply(DocumentState(doc, 0), first).state, second).state.content

\* text without the characters at the 0-based indices in gone.
Without(text, gone) ==
    LET keep[k \in 0..Len(text)] ==
            IF k = 0 THEN << >>
            ELSE IF (k - 1) \in gone THEN keep[k - 1]
                 ELSE Append(keep[k - 1], text[k])
    IN  keep[Len(text)]

Range(op) == op.position..(op.position + op.length - 1)

\* C1: convergence of transform.  For two Insert/Delete operations A and B
\* valid against doc, applying A and then the second result of
\* transform(A, B) gives the same text as applying B and then the second
\* result of transform(B, A).
C1_Convergence ==
    (tAB # NoPair /\ tBA # NoPair) =>
        ApplyOp(ApplyOp(doc, opA), tAB.op2) = ApplyOp(ApplyOp(doc, opB), tBA.op2)

\* C2: two Inserts with the same base version and different positions,
\* submitted to one DocumentState, end in the same content whichever the
\* document takes first, and the version has grown by exactly 2.
C2_InsertOrderIndependent ==
    (Len(order) = 2 /\ opA.type = INSERT /\ opB.type = INSERT
        /\ opA.position # opB.position) =>
        /\ st.version = 2
        /\ st.content = IF order[1] = "A" THEN FinalContent(opB, opA)
                        ELSE FinalContent(opA, opB)

\* C3: two Deletes with the same base version and overlapping ranges,
\* submitted to one DocumentState, end in either order in the base content
\* without exactly the union of the two ranges, and the version has grown
\* by exactly 2.
C3_OverlappingDeletesUnion ==
    (Len(order) = 2 /\ opA.type = DELETE /\ opB.type = DELETE
        /\ Range(opA) \cap Range(opB) # {}) =>
        /\ st.version = 2
        /\ st.content = Without(doc, Range(opA) \cup Range(opB))


\* ------------------------------------------- claims about the registry

\* The operation_applied messages client w has been sent, in order.
Applied(w) == SelectSeq(inbox[w], LAMBDA m : m.type = "operation_applied")

\* Folding OperationalTransform.apply_operation over a log, from "".
RECURSIVE Replay(_)
Replay(log) ==
    IF log = << >> THEN << >>
    ELSE ApplyOp(Replay(SubSeq(log, 1, Len(log) - 1)), log[Len(log)])

\* C4: submissions to one document are serialized.  Under any interleaving
\* of the operation handlers, after N accepted submissions the version is N
\* and the log holds each accepted operation exactly once, the k-th
\* accepted one as entry k with version k.
C4_SerializedSubmissions ==
    \A d \in DOMAIN document_states :
        LET s == document_states[d] IN
        /\ s.version = Len(accepted[d])
        /\ Len(s.operations) = Len(accepted[d])
        /\ \A k \in 1..Len(s.operations) :
            /\ s.operations[k].id = accepted[d][k]
            /\ s.operations[k].version = k

\* Two submissions were accepted, the second while the broadcast of the
\* first was still suspended in a send.
C4_Witness ==
    /\ "d1" \in DOMAIN document_states
    /\ Len(accepted["d1"]) = 2
    /\ \E w \in Conns :
        /\ stage[w] \in {"send", "sent"}
        /\ hdl[w].msg.operation.id = accepted["d1"][1]

\* C5: log replay.  In every reachable state of a registry document,
\* folding apply_operation over its operations, from the empty string,
\* gives its content.
C5_LogReplay ==
    \A d \in DOMAIN document_states :
        Replay(document_states[d].operations) = document_states[d].content

\* C6: version monotonicity.  Across any request on a document id, the
\* version grows by exactly 1 when apply_operation accepts an operation and
\* does not change otherwise: it never decreases and never skips.
C6_VersionMonotonic ==
    [][\A d \in DOMAIN document_states :
        d \in DOMAIN document_states' =>
            IF Len(accepted'[d]) = Len(accepted[d]) + 1
            THEN document_states'[d].version = document_states[d].version + 1
            ELSE document_states'[d].version = document_states[d].version
      ]_vars

\* C7: in every reachable state of a registry document, version equals
\* len(operations).
C7_VersionIsLogLength ==
    \A d \in DOMAIN document_states :
        document_states[d].version = Len(document_states[d].operations)

\* A document that has taken an operation and been saved afterwards.
C7_Witness ==
    /\ "d1" \in DOMAIN document_states
    /\ document_states["d1"].version >= 1
    /\ document_states["d1"].content = <<"s">>

\* C8: broadcast order.  Every client receives a document's
\* operation_applied messages in strictly increasing document_version
\* order, under any interleaving of the submit handlers.
C8_BroadcastOrder ==
    \A w \in Conns :
        \A i, j \in 1..Len(Applied(w)) :
            i < j => Applied(w)[i].document_version
                        < Applied(w)[j].document_version

\* C9: on a successful submit the operation_applied broadcast goes to every
\* other connection of the room (no websocket that stayed in the room's list
\* through the broadcast is left out) and never to the submitter.
C9_BroadcastToAllOthers ==
    /\ missed = {}
    /\ \A w \in Conns :
        \A k \in 1..Len(Applied(w)) :
            submitter[Applied(w)[k].operation.id] # w

\* C10: the operation an operation_applied message carries is the rebased
\* operation that was applied and logged under the message's version (same
\* type, position, length and content), and that version is the version the
\* document got by it.
C10_BroadcastIsLoggedOperation ==
    \A w \in Conns :
        \A k \in 1..Len(Applied(w)) :
            LET m == Applied(w)[k]
                log == document_states[docOf[w]].operations
            IN  /\ m.document_version \in 1..Len(log)
                /\ log[m.document_version].id = m.operation.id
                /\ log[m.document_version].type = m.operation.type
                /\ log[m.document_version].position = m.operation.position
                /\ log[m.document_version].length = m.operation.length
                /\ log[m.document_version].content = m.operation.content

\* The replies client w has been sent to its operation messages.
Replies(w) ==
    SelectSeq(inbox[w],
              LAMBDA m : m.type \in {"operation_ack", "operation_error"})

\* The operation ids of client w whose handle_operation call has returned.
Handled(w) ==
    {k \in 1..Len(submitter) :
        /\ submitter[k] = w
        /\ ~(stage[w] \in {"send", "sent"} /\ hdl[w].msg.operation.id = k)}

\* C11: every operation message is answered to its submitter with exactly
\* one reply, an acknowledgment when the operation was accepted and an
\* error when it was rejected.  Stated for the moment nothing further can be
\* sent for an operation: once the handle_operation calls of a client that
\* is still connected have returned, the client holds one reply for each of
\* them, as many acknowledgments as accepted operations and as many errors
\* as rejected ones.
C11_EveryOperationAnswered ==
    \A w \in Conns :
        alive[w] =>
            /\ Len(Replies(w)) = Cardinality(Handled(w))
            /\ Len(SelectSeq(Replies(w),
                             LAMBDA m : m.type = "operation_ack"))
                 = Cardinality({k \in Handled(w) : submitted[k].ok})
            /\ Len(SelectSeq(Replies(w),
                             LAMBDA m : m.type = "operation_error"))
                 = Cardinality({k \in Handled(w) : ~submitted[k].ok})

\* C13: a Delete whose range lies outside the current content
\* (position + length > len(content)) is rejected: apply_operation reports
\* failure, the submitter is sent an error, and the document's content,
\* version and log are unchanged.
C13_OutOfRangeDeleteRejected ==
    [][nextId' = nextId + 1 =>
        LET op == submitted'[nextId].op
            w == submitter'[nextId]
            d == docOf[w]
        IN  (/\ d \in DOMAIN document_states
             /\ op.type = DELETE
             /\ op.position >= 0
             /\ op.position + op.length > Len(document_states[d].content))
            => /\ ~submitted'[nextId].ok
               /\ document_states'[d] = document_states[d]
               /\ inbox'[w] = Append(inbox[w], ErrorMsg)
      ]_vars

\* C15: an operation with a negative position is rejected: it is not
\* applied, the document's content, version and log stay unchanged, and the
\* submitter is sent an error.
C15_NegativePositionRejected ==
    [][nextId' = nextId + 1 =>
        LET op == submitted'[nextId].op
            w == submitter'[nextId]
            d == docOf[w]
        IN  (/\ d \in DOMAIN document_states
             /\ op.position < 0
             /\ op.position # BadPosition)
            => /\ ~submitted'[nextId].ok
               /\ document_states'[d] = document_states[d]
               /\ inbox'[w] = Append(inbox[w], ErrorMsg)
      ]_vars

\* C16: whenever a submitted operation fails (apply_operation returns False,
\* or building the operation raises), the content, version and log of every
\* document are as before the submit, no other connection is sent anything,
\* no broadcast is started, and the submitter is sent operation_error.
C16_FailedSubmitLeavesNoTrace ==
    [][(nextId' = nextId + 1 /\ ~submitted'[nextId].ok) =>
        LET w == submitter'[nextId]
        IN  /\ document_states' = document_states
            /\ inbox' = [inbox EXCEPT ![w] = Append(@, ErrorMsg)]
            /\ stage' = stage
            /\ hdl' = hdl
            /\ active_connections' = active_connections
      ]_vars

\* An operation was rejected on a document that had already taken one,
\* with two connections in the room; the submitter holds the error.
C16_Witness ==
    \E k \in 1..Len(submitted) :
        LET w == submitter[k]
            d == docOf[w]
        IN  /\ ~submitted[k].ok
            /\ d \in DOMAIN document_states
            /\ document_states[d].version >= 1
            /\ d \in DOMAIN active_connections
            /\ Len(active_connections[d]) = 2
            /\ Len(Replies(w)) >= 1

\* C12: catch-up.  For a document at version N and any V in 0..N,
\* get_operations_since(V) returns exactly the logged operations of the
\* versions V+1..N, each once, in increasing version order.
C12_CatchUp ==
    \A d \in DOMAIN document_states :
        LET s == document_states[d]
            N == s.version
        IN  \A V \in 0..N :
                LET since == GetOperationsSince(s, V)
                IN  /\ since = SubSeq(s.operations, V + 1, N)
                    /\ Len(since) = N - V
                    /\ \A j \in 1..Len(since) : since[j].version = V + j

\* A document at version 3, one of its operations rebased on the way in: a
\* client at version 1 is two operations behind.
C12_Witness ==
    /\ "d1" \in DOMAIN document_states
    /\ document_states["d1"].version = 3
    /\ Len(GetOperationsSince(document_states["d1"], 1)) = 2
    /\ \E k \in 1..3 :
        document_states["d1"].operations[k].position # submitted[k].op.position

\* What C14 says of st after apply_operation has taken op on the text doc.
BoundaryHolds(op) ==
    /\ st.version = 1
    /\ (op.type = DELETE /\ op.position + op.length > Len(doc)) =>
            st.content = SubSeq(doc, 1, Min(op.position, Len(doc)))
    /\ (op.type = INSERT /\ op.position = Len(doc)) =>
            st.content = doc \o op.content

\* C14: boundary.  Applying a Delete whose range extends past the end of the
\* content removes only the characters from its position up to the end and
\* never raises; applying an Insert at position = len(content) appends the
\* payload.
C14_Boundary ==
    /\ order = <<"A">> => BoundaryHolds(opA)
    /\ order = <<"B">> => BoundaryHolds(opB)

\* A Delete starting inside the text and reaching past its end has been
\* applied.
C14_Witness ==
    /\ order = <<"A">>
    /\ opA.type = DELETE
    /\ opA.position < Len(doc)
    /\ opA.position + opA.length > Len(doc)
    /\ st.content = SubSeq(doc, 1, opA.position)

\* C17: transport failure isolation.  When a send of a broadcast fails, the
\* document states are not affected, and when that broadcast ends every
\* other non-excluded connection of the room has been sent the message and
\* nothing is raised to the caller (handle_operation sends no
\* operation_error).
C17_TransportFailureIsolation ==
    [][\A w \in Conns :
        /\ (stage[w] = "send" /\ stage'[w] = "sent") =>
                document_states' = document_states
        /\ (stage[w] = "sent" /\ stage'[w] = "loop"
                /\ hdl[w].disc # << >>) =>
                /\ missed' = missed
                /\ inbox'[w] = inbox[w]
                /\ document_states' = document_states
      ]_vars

\* C18: presence never touches the document.  Every step of the handling of
\* a cursor_update, typing_start or typing_stop message (the start of its
\* broadcast, each send, the end) leaves the content, version and log of
\* every document unchanged.
C18_PresenceLeavesDocuments ==
    [][\A w \in Conns :
        (/\ stage'[w] # stage[w]
         /\ \/ hdl[w].msg.type \in PresenceTypes
            \/ hdl'[w].msg.type \in PresenceTypes)
        => document_states' = document_states
      ]_vars

\* A client has been sent a presence message of a document that had taken
\* an operation before.
C18_Witness ==
    /\ "d1" \in DOMAIN document_states
    /\ document_states["d1"].version = 1
    /\ \E w \in Conns : \E j \in 1..Len(inbox[w]) :
        /\ inbox[w][j].type \in PresenceTypes
        /\ \E i \in 1..(j - 1) : inbox[w][i].type = "operation_applied"

C20_DocumentIndependence ==
    [][nextId' = nextId + 1 =>
        \A d \in DOMAIN document_states \ {docOf[submitter'[nextId]]} :
            /\ d \in DOMAIN document_states'
            /\ document_states'[d] = document_states[d]
      ]_vars

\* Document d2 took an operation while a broadcast of document d1 was
\* suspended in a send, and the two documents differ.
C20_Witness ==
    /\ DOMAIN document_states = {"d1", "d2"}
    /\ document_states["d1"].version = 1
    /\ document_states["d2"].version = 1
    /\ document_states["d1"] # document_states["d2"]
    /\ accepted["d2"] = <<2>>
    /\ \E w \in Conns :
        /\ docOf[w] = "d1"
        /\ stage[w] \in {"send", "sent"}
        /\ hdl[w].msg.operation.id = 1

\* The operation op rebased as C21 describes it: transformed, in log order,
\* against the entries of history[k..] with a version above op's base
\* version (cur is the operation so far).
RECURSIVE RebasedSince(_, _, _, _)
RebasedSince(op, history, k, cur) ==
    IF k > Len(history) THEN cur
    ELSE IF history[k].version > op.version
         THEN RebasedSince(op, history, k + 1, Transform(cur, history[k]).op1)
         ELSE RebasedSince(op, history, k + 1, cur)

\* C21: rebase range.  apply_operation rebases a submitted operation
\* against exactly the logged operations appended since its base version,
\* in log order: the operation it applies and logs has the type, position
\* and length of that rebase; in particular an operation whose base version
\* is the document's current version is logged with its position and
\* length unchanged.
C21_RebaseRange ==
    [][(nextId' = nextId + 1 /\ submitted'[nextId].ok) =>
        LET op == submitted'[nextId].op
            d == docOf[submitter'[nextId]]
            s == document_states[d]
            logged == document_states'[d].operations[Len(s.operations) + 1]
            expected == RebasedSince(op, s.operations, 1, op)
        IN  /\ logged.type = expected.type
            /\ logged.position = expected.position
            /\ logged.length = expected.length
            /\ op.version = s.version =>
                    /\ logged.position = op.position
                    /\ logged.length = op.length
      ]_vars

\* C22: tie-break.  Of two concurrent Inserts at the same position the one
\* the document took first comes first: the final content has the payload
\* taken first right before the payload taken second, at that position.
C22_TieBreak ==
    (Len(order) = 2 /\ opA.type = INSERT /\ opB.type = INSERT
        /\ opA.position = opB.position) =>
        LET first == IF order[1] = "A" THEN opA ELSE opB
            second == IF order[1] = "A" THEN opB ELSE opA
        IN  st.content = SliceTo(doc, first.position) \o first.content
                            \o second.content
                            \o SliceFrom(doc, first.position)

\* C23: Delete/Delete transform.  For overlapping ranges the Delete that
\* starts first (op1 when the starts are equal) becomes a Delete at its own
\* position of the length of the union of the two ranges and the other a
\* zero-length Retain; for disjoint ranges the earlier-starting Delete is
\* returned unchanged and the later-starting one keeps its length, its
\* position reduced by the earlier one's length.
C23_DeleteDeleteTransform ==
    (tAB # NoPair /\ opA.type = DELETE /\ opB.type = DELETE) =>
        LET AFirst == opA.position <= opB.position
            early == IF AFirst THEN opA ELSE opB
            late == IF AFirst THEN opB ELSE opA
            early2 == IF AFirst THEN tAB.op1 ELSE tAB.op2
            late2 == IF AFirst THEN tAB.op2 ELSE tAB.op1
            union == Range(opA) \cup Range(opB)
        IN  IF Range(opA) \cap Range(opB) # {}
            THEN /\ early2.type = DELETE
                 /\ early2.position = early.position
                 /\ early2.length = Cardinality(union)
                 /\ Range(early2) = union
                 /\ late2.type = RETAIN
                 /\ late2.length = 0
            ELSE /\ early2 = early
                 /\ late2.type = DELETE
                 /\ late2.length = late.length
                 /\ late2.position = late.position - early.length

\* transform(opA, opB) was computed for two overlapping Deletes of which opB
\* starts first and opA reaches further.
C23_Witness ==
    /\ tAB # NoPair
    /\ opA.type = DELETE /\ opB.type = DELETE
    /\ opB.position < opA.position
    /\ opA.position < opB.position + opB.length
    /\ opA.position + opA.length > opB.position + opB.length
    /\ tAB.op2.length = Cardinality(Range(opA) \cup Range(opB))

\* C24: operations are immutable.  apply_operation (and the transforms it
\* runs) changes no field of the Operation the caller passed in: the
\* operation handle_operation serialises after the call, carried by the
\* operation_applied messages, is the operation it built from the client's
\* message.
C24_OperationsImmutable ==
    \A w \in Conns :
        \A k \in 1..Len(Applied(w)) :
            Applied(w)[k].operation = submitted[Applied(w)[k].operation.id].op

\* C25: room lifecycle.  Every key of active_connections maps to a
\* non-empty list.
C25_RoomLifecycle ==
    \A d \in DOMAIN active_connections : active_connections[d] # << >>

\* C28: concurrent broadcast and membership change.  When a broadcast ends,
\* every non-excluded connection that was in the room's list all through
\* it has been sent the message, whatever was removed from the list while
\* the broadcast was suspended in its sends.
C28_NoRecipientSkipped ==
    [][\A w \in Conns :
        (stage[w] \in {"send", "sent"} /\ stage'[w] = "loop") =>
            missed' = missed
      ]_vars

\* C30: registry consistency.  For every connection whose receive loop is
\* running for document d (its client connected), document_states[d]
\* exists and the connection is in active_connections[d].
C30_RegistryConsistency ==
    \A w \in Conns :
        (stage[w] \in {"loop", "send", "sent"} /\ alive[w]) =>
            /\ docOf[w] \in DOMAIN document_states
            /\ docOf[w] \in DOMAIN active_connections
            /\ InList(active_connections[docOf[w]], w)

\* ------------------------------------------------ claims under SpecCheckpoint

InsertOrDelete(op) ==
    op.type \in {"insert", "delete"} /\ op.position >= 0 /\ op.length >= 0

\* C27: for any two Insert/Delete operations with non-negative positions and
\* lengths, both operations that transform_operation returns have a
\* position >= 0.
C27_PositionInvariant ==
    (cpResult # NoResult /\ InsertOrDelete(cpOp1) /\ InsertOrDelete(cpOp2))
        => (cpResult[1].position >= 0 /\ cpResult[2].position >= 0)

\* --------------------------------------------------- claims under SpecManager

\* C26: a text_operation with client version V, 0 <= V < N, N the version of
\* the document, leaves content, version and operation_history as they were
\* and sends the submitter operations_missing with the history records of
\* versions V+1..N, in order, and current_version N.
C26_StaleSubmit ==
    [][calls' = calls - 1 =>
        LET m == received'
            w == m.websocket
            V == m.version
            mgr == websocket_manager
        IN  (/\ w \in DOMAIN mgr.user_sessions
             /\ ManagerDoc \in DOMAIN mgr.document_states
             /\ V >= 0
             /\ V < mgr.document_states[ManagerDoc].version)
            =>
            LET N == mgr.document_states[ManagerDoc].version
                history == mgr.operation_history[ManagerDoc]
            IN  /\ websocket_manager' = websocket_manager
                /\ Len(history) = N
                /\ \A k \in 1..N : history[k].version = k
                /\ sent' = [sent EXCEPT ![w] = Append(@,
                       [type |-> "operations_missing",
                        operations |-> [k \in 1..(N - V) |-> history[V + k]],
                        current_version |-> N])]
    ]_vars

\* A client at version 1 was sent the one record it lacks of a document at
\* version 2.
C26_Witness ==
    \E w \in Conns : \E k \in 1..Len(sent[w]) :
        /\ sent[w][k].type = "operations_missing"
        /\ sent[w][k].current_version = 2
        /\ Len(sent[w][k].operations) = 1
        /\ sent[w][k].operations[1].version = 2

\* C29: once disconnect has returned for every websocket that connected to
\* the document, none of them is left in user_sessions and the document has
\* no entry in document_connections, document_states and operation_history.
C29_DisconnectCleansUp ==
    LET connected == {w \in Conns : task[w] \notin {"off", "new"}} IN
    (connected # {} /\ \A w \in connected : task[w] = "closed")
        => /\ \A w \in connected :
                w \notin DOMAIN websocket_manager.user_sessions
           /\ ManagerDoc \notin DOMAIN websocket_manager.document_connections
           /\ ManagerDoc \notin DOMAIN websocket_manager.document_states
           /\ ManagerDoc \notin DOMAIN websocket_manager.operation_history

=============================================================================
